---------------------------- MODULE Spec2Model ----------------------------
(***************************************************************************)
(* Model of the Linux software-RAID ("md") tables of osquery:              *)
(*   osquery/tables/system/linux/md_tables.cpp                             *)
(*                                                                         *)
(* Two state machines share this module:                                   *)
(*   Spec      - one call of getDrivesForArray (the slot reconciler),      *)
(*               stepped statement by statement, with the MDInterface      *)
(*               collaborators answering nondeterministically;             *)
(*   SpecParse - one call of MD::parseMDStat over a bounded list of        *)
(*               lines, stepped one line access at a time.                 *)
(*                                                                         *)
(* A std::string is a sequence of one-character strings, so that           *)
(* to_string, stoi, find, substr, split and trimStr are computed and not   *)
(* assumed.                                                                *)
(***************************************************************************)
EXTENDS Integers, Sequences, FiniteSets, TLC

VARIABLES
    pc,         \* position inside getDrivesForArray
    data,       \* the caller's QueryData (accumulating output)
    before,     \* the caller's QueryData when the call started
    raid_disks, \* array.raid_disks as filled in by getArrayInfo
    i,          \* cursor of the scan loop (disk.number of the next query)
    slot,       \* cursor of the missing-slot loop
    temp,       \* the local QueryData temp
    disks,      \* what getDiskInfo answered, in query order
    calls,      \* the MDInterface calls made so far, in order
    lines,      \* parseMDStat: the input lines
    n,          \* parseMDStat: the line cursor
    ppc,        \* parseMDStat: position inside the function
    result,     \* parseMDStat: the MDStat being filled
    mdd,        \* parseMDStat: the MDDevice under construction
    iters,      \* parseMDStat: iterations of the main loop started so far
    oob,        \* parseMDStat: lines[] was indexed at or past lines.size()
    deviceName, \* getDrivesForArray: the argument arrayName (device.name)
    dev,        \* genMDDrives: how many of mds.devices the loop has taken
    passDevices, \* genMDDrives: the names in mds.devices
    passLog,    \* genMDDrives: what each finished getDrivesForArray call saw
    diskState,  \* getDiskStateStr: the argument state
    stateStr,   \* getDiskStateStr: the string returned
    spc,        \* getDiskStateStr: position
    fpc,        \* getDiskInfo/getArrayInfo: position inside the function
    fn,         \* getDiskInfo/getArrayInfo: which of the two is running
    fd,         \* getDiskInfo/getArrayInfo: the local fd
    status,     \* getDiskInfo/getArrayInfo: the local status
    openFds,    \* the file descriptors the process has open
    fdsBefore,  \* the open file descriptors when the call started
    returns,    \* what the calls finished so far returned, in order
    tokens,     \* parseMDStat: the drive tokens settings[2..] of an md line
    ti,         \* parseMDStat: how many drive tokens the loop has taken
    drives,     \* parseMDStat: mdd.drives
    tpc,        \* parseMDStat: position in the loop over the drive tokens
    mds,        \* genMDDevices: the MDStat parseMDStat filled
    mi,         \* genMDDevices: how many of mds.devices the loop has taken
    results,    \* genMDDevices: the QueryData results
    mpc         \* genMDDevices: position inside the function

dvars == <<pc, data, before, raid_disks, i, slot, temp, disks, calls>>
pvars == <<lines, n, ppc, result, mdd, iters, oob>>
gvars == <<deviceName, dev, passDevices, passLog>>
svars == <<diskState, stateStr, spc>>
fvars == <<fpc, fn, fd, status, openFds, fdsBefore, returns>>
tvars == <<tokens, ti, drives, tpc>>
mvars == <<mds, mi, results, mpc>>
vars == <<pc, data, before, raid_disks, i, slot, temp, disks, calls,
          lines, n, ppc, result, mdd, iters, oob,
          deviceName, dev, passDevices, passLog,
          diskState, stateStr, spc,
          fpc, fn, fd, status, openFds, fdsBefore, returns,
          tokens, ti, drives, tpc,
          mds, mi, results, mpc>>

----------------------------------------------------------------------------
(* Bounds                                                                  *)

\* number of superblock slot numbers scanned (27 in <linux/raid/md_p.h>)
MD_SB_DISKS == 3

\* largest number of arrays in mds.devices in a genMDDrives pass
MaxArrays == 3

\* largest number of arrays in mds.devices in a genMDDevices pass
MaxDevices == 2

\* largest number of drive tokens on an md line
MaxTokens == 3

\* calls of getDiskInfo/getArrayInfo followed in the handle model
MaxQueries == 3

\* largest disk count getArrayInfo reports
MaxRaidDisks == 3

\* largest raid_disk (current slot) getDiskInfo reports
MaxSlotReported == 3

\* largest number of lines handed to parseMDStat
MaxLines == 4

\* how far past lines.size() an out-of-range read can still find a string
MaxOverrun == 1

----------------------------------------------------------------------------
(* Strings                                                                 *)

Digits == <<"0", "1", "2", "3", "4", "5", "6", "7", "8", "9">>

IsDigit(c) == \E k \in 1..10 : Digits[k] = c

DigitVal(c) == (CHOOSE k \in 1..10 : Digits[k] = c) - 1

RECURSIVE NatStr(_)
NatStr(k) == IF k < 10 THEN <<Digits[k + 1]>>
             ELSE NatStr(k \div 10) \o <<Digits[(k % 10) + 1]>>

\* std::to_string(int)
to_string(k) == IF k < 0 THEN <<"-">> \o NatStr(0 - k) ELSE NatStr(k)

IsSpace(c) == c \in {" ", "\t", "\n", "\r"}

RECURSIVE SkipSpace(_)
SkipSpace(s) == IF s # <<>> /\ IsSpace(Head(s)) THEN SkipSpace(Tail(s)) ELSE s

RECURSIVE DigitRun(_)
DigitRun(s) == IF s # <<>> /\ IsDigit(Head(s))
               THEN <<Head(s)>> \o DigitRun(Tail(s)) ELSE <<>>

RECURSIVE DigitsVal(_, _)
DigitsVal(s, acc) == IF s = <<>> THEN acc
                     ELSE DigitsVal(Tail(s), 10 * acc + DigitVal(Head(s)))

\* std::stoi(str): leading whitespace, an optional sign, then the longest
\* run of digits; ok is FALSE where stoi throws std::invalid_argument.
stoi(str) ==
    LET s0   == SkipSpace(str)
        neg  == s0 # <<>> /\ Head(s0) = "-"
        sgn  == s0 # <<>> /\ Head(s0) \in {"-", "+"}
        s1   == IF sgn THEN Tail(s0) ELSE s0
        run  == DigitRun(s1)
    IN  [ok  |-> run # <<>>,
         val |-> IF neg THEN 0 - DigitsVal(run, 0) ELSE DigitsVal(run, 0)]

\* s.find_first_not_of(c): 0-based index, or -1 for npos
RECURSIVE FirstNotOf(_, _, _)
FirstNotOf(s, c, k) == IF k > Len(s) THEN -1
                       ELSE IF s[k] # c THEN k - 1
                       ELSE FirstNotOf(s, c, k + 1)

\* s.find_last_not_of(c): 0-based index, or -1 for npos
RECURSIVE LastNotOf(_, _, _)
LastNotOf(s, c, k) == IF k < 1 THEN -1
                      ELSE IF s[k] # c THEN k - 1
                      ELSE LastNotOf(s, c, k - 1)

\* trimStr(std::string&, c = ' '): a string of nothing but c is left as is
trimStr(s) ==
    LET first == FirstNotOf(s, " ", 1)
        last  == LastNotOf(s, " ", Len(s))
    IN  IF first = -1 THEN s
        ELSE SubSeq(s, first + 1, last + 1)

S_unknown == <<"u", "n", "k", "n", "o", "w", "n">>
S_removed == <<"r", "e", "m", "o", "v", "e", "d">>
S_recovering == <<"r", "e", "c", "o", "v", "e", "r", "i", "n", "g">>
S_faulty_ == <<"f", "a", "u", "l", "t", "y", " ">>
S_active_ == <<"a", "c", "t", "i", "v", "e", " ">>
S_sync_ == <<"s", "y", "n", "c", " ">>
S_removed_ == <<"r", "e", "m", "o", "v", "e", "d", " ">>
S_writemostly_ == <<"w", "r", "i", "t", "e", "m", "o", "s", "t", "l", "y", " ">>
S_failfast_ == <<"f", "a", "i", "l", "f", "a", "s", "t", " ">>
S_journal_ == <<"j", "o", "u", "r", "n", "a", "l", " ">>
S_spare_ == <<"s", "p", "a", "r", "e", " ">>
S_clusteradd_ == <<"c", "l", "u", "s", "t", "e", "r", "a", "d", "d", " ">>
S_active_sync == <<"a", "c", "t", "i", "v", "e", " ", "s", "y", "n", "c">>
S_md0 == <<"m", "d", "0">>
S_md1 == <<"m", "d", "1">>
S_dev_ == <<"/", "d", "e", "v", "/">>

\* s.find(pat): 0-based index of the first occurrence, or -1 for npos
IsAt(s, pat, k) == /\ k + Len(pat) - 1 <= Len(s)
                   /\ \A j \in 1..Len(pat) : s[k + j - 1] = pat[j]

RECURSIVE FindFrom(_, _, _)
FindFrom(s, pat, k) == IF k + Len(pat) - 1 > Len(s) THEN -1
                       ELSE IF IsAt(s, pat, k) THEN k - 1
                       ELSE FindFrom(s, pat, k + 1)

Find(s, pat) == FindFrom(s, pat, 1)

\* s.substr(pos) and s.substr(pos, count), defined for pos <= s.size();
\* beyond that std::string::substr throws std::out_of_range
SubstrOk(s, pos) == pos <= Len(s)

Substr(s, pos) == SubSeq(s, pos + 1, Len(s))

Min(a, b) == IF a < b THEN a ELSE b

SubstrN(s, pos, count) == SubSeq(s, pos + 1, Min(Len(s), pos + count))

S_Personalities == <<"P", "e", "r", "s", "o", "n", "a", "l", "i", "t", "i", "e", "s", " ", ":">>
S_unused_devices == <<"u", "n", "u", "s", "e", "d", " ", "d", "e", "v", "i", "c", "e", "s", ":">>
S_recovery == <<"r", "e", "c", "o", "v", "e", "r", "y", " ", "=">>
S_resync == <<"r", "e", "s", "y", "n", "c", " ", "=">>
S_reshape == <<"r", "e", "s", "h", "a", "p", "e", " ", "=">>
S_check == <<"c", "h", "e", "c", "k", " ", "=">>
S_bitmap == <<"b", "i", "t", "m", "a", "p", ":">>

----------------------------------------------------------------------------
(* getDiskStateStr                                                         *)

\* bit numbers of <linux/raid/md_p.h>
MD_DISK_FAULTY == 0
MD_DISK_ACTIVE == 1
MD_DISK_SYNC == 2
MD_DISK_REMOVED == 3
MD_DISK_CLUSTER_ADD == 4
MD_DISK_CANDIDATE == 5
MD_DISK_WRITEMOSTLY == 9
MD_DISK_FAILFAST == 10
MD_DISK_JOURNAL == 18

RECURSIVE Pow2(_)
Pow2(k) == IF k = 0 THEN 1 ELSE 2 * Pow2(k - 1)

\* ((1 << bit) & value) != 0, for value >= 0
BitSet(bit, value) == (value \div Pow2(bit)) % 2 = 1

getDiskStateStr(state) ==
    IF state = 0 THEN S_recovering
    ELSE trimStr(
           (IF BitSet(MD_DISK_FAULTY, state) THEN S_faulty_ ELSE <<>>)
        \o (IF BitSet(MD_DISK_ACTIVE, state) THEN S_active_ ELSE <<>>)
        \o (IF BitSet(MD_DISK_SYNC, state) THEN S_sync_ ELSE <<>>)
        \o (IF BitSet(MD_DISK_REMOVED, state) THEN S_removed_ ELSE <<>>)
        \o (IF BitSet(MD_DISK_WRITEMOSTLY, state) THEN S_writemostly_ ELSE <<>>)
        \o (IF BitSet(MD_DISK_FAILFAST, state) THEN S_failfast_ ELSE <<>>)
        \o (IF BitSet(MD_DISK_JOURNAL, state) THEN S_journal_ ELSE <<>>)
        \o (IF BitSet(MD_DISK_CANDIDATE, state) THEN S_spare_ ELSE <<>>)
        \o (IF BitSet(MD_DISK_CLUSTER_ADD, 1) THEN S_clusteradd_ ELSE <<>>))

\* the flag bits <linux/raid/md_p.h> defines
FlagBits == {MD_DISK_FAULTY, MD_DISK_ACTIVE, MD_DISK_SYNC, MD_DISK_REMOVED,
             MD_DISK_CLUSTER_ADD, MD_DISK_CANDIDATE, MD_DISK_WRITEMOSTLY,
             MD_DISK_FAILFAST, MD_DISK_JOURNAL}

RECURSIVE MaskOf(_)
MaskOf(bits) ==
    IF bits = {} THEN 0
    ELSE LET b == CHOOSE x \in bits : TRUE
         IN  Pow2(b) + MaskOf(bits \ {b})

\* the state fields a disk can report
States == {MaskOf(bits) : bits \in SUBSET FlagBits}

\* one call of getDiskStateStr
GetDiskStateStr ==
    /\ spc = "start"
    /\ stateStr' = getDiskStateStr(diskState)
    /\ spc' = "done"
    /\ UNCHANGED diskState

SInit ==
    /\ spc = "start"
    /\ diskState \in States
    /\ stateStr = <<>>

SIdle ==
    /\ spc = "idle"
    /\ diskState = 0
    /\ stateStr = <<>>

----------------------------------------------------------------------------
(* The MDInterface collaborators as seen by getDrivesForArray              *)

ArrayName == S_md0

\* a row some earlier getDrivesForArray call left in the caller's output
PriorRow == [md_device_name |-> S_md1, drive_name |-> S_unknown,
             state |-> S_removed, slot |-> to_string(0)]

\* the block devices udev knows: major 8, one minor per scanned slot number
DevLetters == <<"a", "b", "c", "d", "e", "f", "g", "h">>

Devices == { [major |-> 8, minor |-> m,
              name |-> S_dev_ \o <<"s", "d", DevLetters[m + 1]>>] :
             m \in 0..(Len(DevLetters) - 1) }

\* MD::getDevName: the DEVNAME of the entry with that MAJOR and MINOR, or
\* "unknown"
getDevName(major, minor) ==
    IF \E d \in Devices : d.major = major /\ d.minor = minor
    THEN (CHOOSE d \in Devices : d.major = major /\ d.minor = minor).name
    ELSE S_unknown

\* MD::getPathByDevName: the device path, or "" when no entry matches
PathResults(name) == {<<>>, S_dev_ \o name}

\* the state bitmasks getDiskInfo reports: faulty, active+sync
DiskStates == {1, 6}

\* what MD::getDiskInfo can answer for slot number k: the ioctl fails, or
\* it fills in a disk without a device node, or a disk with one
DiskAnswers(k) ==
       {[ok |-> FALSE, number |-> k, raid_disk |-> 0, state |-> 0,
         major |-> 0, minor |-> 0]}
  \cup {[ok |-> TRUE, number |-> k, raid_disk |-> -1, state |-> 8,
         major |-> 0, minor |-> 0],
        [ok |-> TRUE, number |-> k, raid_disk |-> 0, state |-> 6,
         major |-> 0, minor |-> 0],
        [ok |-> TRUE, number |-> k, raid_disk |-> -1, state |-> 8,
         major |-> -1, minor |-> 0]}
  \cup {[ok |-> TRUE, number |-> k, raid_disk |-> r, state |-> st,
         major |-> 8, minor |-> k] :
        r \in (-1)..MaxSlotReported, st \in DiskStates}

\* the arrays a genMDDrives pass iterates over: md1, md2, ...
PassName(j) == <<"m", "d">> \o to_string(j)

PassIndex(name) == CHOOSE j \in 1..MaxArrays : PassName(j) = name

\* the disk in slot number k of the j-th array of a pass: every third array
\* is healthy, the next has a faulty disk in each even slot number, the next
\* an empty slot number 0 and spares after it
PassDisk(j, k) ==
    IF j % 3 = 1
    THEN [ok |-> TRUE, number |-> k, raid_disk |-> k, state |-> 6,
          major |-> 8, minor |-> k]
    ELSE IF j % 3 = 2
    THEN [ok |-> TRUE, number |-> k,
          raid_disk |-> IF k % 2 = 0 THEN -1 ELSE k,
          state |-> IF k % 2 = 0 THEN 1 ELSE 6,
          major |-> 8, minor |-> k]
    ELSE IF k = 0
    THEN [ok |-> TRUE, number |-> k, raid_disk |-> -1, state |-> 8,
          major |-> 0, minor |-> 0]
    ELSE [ok |-> TRUE, number |-> k, raid_disk |-> -1, state |-> 6,
          major |-> 8, minor |-> k]

\* what md.getDiskInfo(arrayName, disk) can answer for disk.number = k
Answers(name, k) ==
    IF name = ArrayName THEN DiskAnswers(k)
    ELSE {PassDisk(PassIndex(name), k)}

----------------------------------------------------------------------------
(* getDrivesForArray                                                       *)

\* a record of one MDInterface call: its arguments and whether it succeeded
Call(name, x, y, ok) == [fn |-> name, a |-> x, b |-> y, ok |-> ok]

\* DiskRow with the slot always taken from the queried slot number
DiskRow_SlotFromNumber(arrayName, N, disk) ==
    [md_device_name |-> arrayName,
     drive_name     |-> getDevName(disk.major, disk.minor),
     state          |-> getDiskStateStr(disk.state),
     slot           |-> to_string(disk.number)]

\* DiskRow with the test disk.number <= array.raid_disks
DiskRow_NumberLeN(arrayName, N, disk) ==
    [md_device_name |-> arrayName,
     drive_name     |-> getDevName(disk.major, disk.minor),
     state          |-> getDiskStateStr(disk.state),
     slot           |-> IF disk.raid_disk < 0 /\ disk.number <= N
                        THEN to_string(disk.number)
                        ELSE to_string(disk.raid_disk)]

\* the row built for a disk with a device node (the body of `if (disk.major
\* > 0)`), slot included
DiskRow(arrayName, N, disk) ==
    [md_device_name |-> arrayName,
     drive_name     |-> getDevName(disk.major, disk.minor),
     state          |-> getDiskStateStr(disk.state),
     slot           |-> IF disk.raid_disk < 0 /\ disk.number < N
                        THEN to_string(disk.number)
                        ELSE to_string(disk.raid_disk)]

\* ScanDisk with the test disk.major >= 0
ScanDisk_AnyMajor(t, arrayName, N, disk) ==
    IF disk.major >= 0 THEN Append(t, DiskRow(arrayName, N, disk)) ELSE t

\* ScanDisk with the test disk.major != 0
ScanDisk_NonZeroMajor(t, arrayName, N, disk) ==
    IF disk.major # 0 THEN Append(t, DiskRow(arrayName, N, disk)) ELSE t

\* one iteration of the scan loop, after a successful getDiskInfo
ScanDisk(t, arrayName, N, disk) ==
    IF disk.major > 0 THEN Append(t, DiskRow(arrayName, N, disk)) ELSE t

\* the inner for loop of the missing-slot pass: found, softRemoved
Found(t, s) == \E k \in 1..Len(t) : stoi(t[k].slot).val = s

SoftRemovedSet(t, s) ==
    {k \in 1..Len(t) : stoi(t[k].slot).val # s /\ stoi(t[k].slot).val < 0}

\* SoftRemoved with the test stoi(slot) < -1
SoftRemoved_BelowMinusOne(t, s) ==
    LET set == {k \in 1..Len(t) : stoi(t[k].slot).val # s
                                  /\ stoi(t[k].slot).val < -1}
    IN  IF set = {} THEN -1
        ELSE (CHOOSE k \in set : \A j \in set : j <= k) - 1

\* SoftRemoved that stops at the first row with a negative slot
SoftRemoved_First(t, s) ==
    IF SoftRemovedSet(t, s) = {} THEN -1
    ELSE (CHOOSE k \in SoftRemovedSet(t, s) :
             \A j \in SoftRemovedSet(t, s) : k <= j) - 1

\* SoftRemoved that never finds a row
SoftRemoved_None(t, s) == -1

SoftRemoved(t, s) ==
    IF SoftRemovedSet(t, s) = {} THEN -1
    ELSE (CHOOSE k \in SoftRemovedSet(t, s) :
             \A j \in SoftRemovedSet(t, s) : j <= k) - 1

\* ResolveSlot without the placeholder row for a slot nobody carries
ResolveSlot_NoPlaceholder(t, arrayName, s) ==
    IF Found(t, s) THEN t
    ELSE IF SoftRemoved(t, s) > -1
         THEN [t EXCEPT ![SoftRemoved(t, s) + 1].slot = to_string(s)]
         ELSE t

\* ResolveSlot that puts the placeholder row in front
ResolveSlot_PlaceholderFirst(t, arrayName, s) ==
    IF Found(t, s) THEN t
    ELSE IF SoftRemoved(t, s) > -1
         THEN [t EXCEPT ![SoftRemoved(t, s) + 1].slot = to_string(s)]
         ELSE <<[md_device_name |-> arrayName,
                 drive_name     |-> S_unknown,
                 state          |-> S_removed,
                 slot           |-> to_string(s)]>> \o t

\* ResolveSlot that gives a missing slot to the first row, whatever it has
ResolveSlot_ReassignsFirstRow(t, arrayName, s) ==
    IF Found(t, s) THEN t
    ELSE IF Len(t) > 0
         THEN [t EXCEPT ![1].slot = to_string(s)]
         ELSE Append(t, [md_device_name |-> arrayName,
                         drive_name     |-> S_unknown,
                         state          |-> S_removed,
                         slot           |-> to_string(s)])

\* one iteration of the missing-slot loop
ResolveSlot(t, arrayName, s) ==
    IF Found(t, s) THEN t
    ELSE IF SoftRemoved(t, s) > -1
         THEN [t EXCEPT ![SoftRemoved(t, s) + 1].slot = to_string(s)]
         ELSE Append(t, [md_device_name |-> arrayName,
                         drive_name     |-> S_unknown,
                         state          |-> S_removed,
                         slot           |-> to_string(s)])

\* GetPath without the return on an empty path
GetPath_IgnoresEmpty ==
    /\ pc = "start"
    /\ \E p \in PathResults(deviceName) :
          calls' = Append(calls, Call("getPathByDevName", 0, 0, p # <<>>))
    /\ pc' = "arrayinfo"
    /\ UNCHANGED <<data, before, raid_disks, i, slot, temp, disks>>

\* std::string path(md.getPathByDevName(arrayName)); if (path == "") return;
GetPath ==
    /\ pc = "start"
    /\ \E p \in PathResults(deviceName) :
          /\ calls' = Append(calls, Call("getPathByDevName", 0, 0, p # <<>>))
          /\ pc' = IF p = <<>> THEN "done" ELSE "arrayinfo"
    /\ UNCHANGED <<data, before, raid_disks, i, slot, temp, disks>>

\* GetArrayInfoFails without the return on failure
GetArrayInfoFails_Ignored ==
    /\ pc = "arrayinfo"
    /\ calls' = Append(calls, Call("getArrayInfo", 0, 0, FALSE))
    /\ pc' = "scan"
    /\ UNCHANGED <<data, before, raid_disks, i, slot, temp, disks>>

\* bool ok = md.getArrayInfo(path, array); if (!ok) return;
GetArrayInfoFails ==
    /\ pc = "arrayinfo"
    /\ calls' = Append(calls, Call("getArrayInfo", 0, 0, FALSE))
    /\ pc' = "done"
    /\ UNCHANGED <<data, before, raid_disks, i, slot, temp, disks>>

GetArrayInfoOk ==
    /\ pc = "arrayinfo"
    /\ \E N \in 0..MaxRaidDisks : raid_disks' = N
    /\ calls' = Append(calls, Call("getArrayInfo", 0, 0, TRUE))
    /\ pc' = "scan"
    /\ UNCHANGED <<data, before, i, slot, temp, disks>>

\* Scan with a break instead of the continue after a failed getDiskInfo
Scan_FailureBreaks ==
    /\ pc = "scan"
    /\ i < MD_SB_DISKS
    /\ \E d \in Answers(deviceName, i) :
          /\ disks' = Append(disks, d)
          /\ IF ~d.ok
             THEN /\ temp' = temp
                  /\ calls' = Append(calls, Call("getDiskInfo", i, 0, FALSE))
                  /\ pc' = "resolve"
             ELSE /\ temp' = ScanDisk(temp, deviceName, raid_disks, d)
                  /\ calls' = IF d.major > 0
                              THEN calls \o
                                   <<Call("getDiskInfo", i, 0, TRUE),
                                     Call("getDevName", d.major, d.minor, TRUE)>>
                              ELSE Append(calls,
                                          Call("getDiskInfo", i, 0, TRUE))
                  /\ pc' = IF i + 1 < MD_SB_DISKS THEN "scan" ELSE "resolve"
    /\ i' = i + 1
    /\ UNCHANGED <<data, before, raid_disks, slot>>

\* Scan with the loop test i <= MD_SB_DISKS
Scan_OneMore ==
    /\ pc = "scan"
    /\ i <= MD_SB_DISKS
    /\ \E d \in Answers(deviceName, i) :
          /\ disks' = Append(disks, d)
          /\ IF ~d.ok
             THEN /\ temp' = temp
                  /\ calls' = Append(calls, Call("getDiskInfo", i, 0, FALSE))
             ELSE /\ temp' = ScanDisk(temp, deviceName, raid_disks, d)
                  /\ calls' = IF d.major > 0
                              THEN calls \o
                                   <<Call("getDiskInfo", i, 0, TRUE),
                                     Call("getDevName", d.major, d.minor, TRUE)>>
                              ELSE Append(calls,
                                          Call("getDiskInfo", i, 0, TRUE))
    /\ i' = i + 1
    /\ pc' = IF i + 1 <= MD_SB_DISKS THEN "scan" ELSE "resolve"
    /\ UNCHANGED <<data, before, raid_disks, slot>>

\* one iteration of for (i = 0; i < MD_SB_DISKS; i++)
Scan ==
    /\ pc = "scan"
    /\ i < MD_SB_DISKS
    /\ \E d \in Answers(deviceName, i) :
          /\ disks' = Append(disks, d)
          /\ IF ~d.ok
             THEN /\ temp' = temp
                  /\ calls' = Append(calls, Call("getDiskInfo", i, 0, FALSE))
             ELSE /\ temp' = ScanDisk(temp, deviceName, raid_disks, d)
                  /\ calls' = IF d.major > 0
                              THEN calls \o
                                   <<Call("getDiskInfo", i, 0, TRUE),
                                     Call("getDevName", d.major, d.minor, TRUE)>>
                              ELSE Append(calls,
                                          Call("getDiskInfo", i, 0, TRUE))
    /\ i' = i + 1
    /\ pc' = IF i + 1 < MD_SB_DISKS THEN "scan" ELSE "resolve"
    /\ UNCHANGED <<data, before, raid_disks, slot>>

\* one iteration of for (slot = 0; slot < array.raid_disks; slot++)
Resolve ==
    /\ pc = "resolve"
    /\ slot < raid_disks
    /\ temp' = ResolveSlot(temp, deviceName, slot)
    /\ slot' = slot + 1
    /\ UNCHANGED <<pc, data, before, raid_disks, i, disks, calls>>

\* data.insert(data.end(), temp.begin(), temp.end());
\* Insert that puts the new rows in front of the caller's rows
Insert_Prepends ==
    /\ pc = "resolve"
    /\ slot >= raid_disks
    /\ data' = temp \o data
    /\ pc' = "done"
    /\ UNCHANGED <<before, raid_disks, i, slot, temp, disks, calls>>

Insert ==
    /\ pc = "resolve"
    /\ slot >= raid_disks
    /\ data' = data \o temp
    /\ pc' = "done"
    /\ UNCHANGED <<before, raid_disks, i, slot, temp, disks, calls>>

\* for (auto& device : mds.devices) getDrivesForArray(device.name, md,
\* results): the next call starts
PassCall ==
    /\ pc = "loop"
    /\ dev < Len(passDevices)
    /\ deviceName' = passDevices[dev + 1]
    /\ dev' = dev + 1
    /\ before' = data
    /\ raid_disks' = 0
    /\ i' = 0
    /\ slot' = 0
    /\ temp' = <<>>
    /\ disks' = <<>>
    /\ calls' = <<>>
    /\ pc' = "start"
    /\ UNCHANGED <<data, passDevices, passLog>>

\* PassCallReturns that leaves the loop when the call failed
PassCallReturns_StopsOnFailure ==
    /\ pc = "done"
    /\ passLog' = Append(passLog, [name |-> deviceName, calls |-> calls,
                                   raid_disks |-> raid_disks,
                                   disks |-> disks])
    /\ dev' = IF \E c \in 1..Len(calls) : ~calls[c].ok /\ calls[c].fn # "getDiskInfo"
              THEN Len(passDevices) ELSE dev
    /\ pc' = "loop"
    /\ UNCHANGED <<data, before, raid_disks, i, slot, temp, disks, calls,
                   deviceName, passDevices>>

\* getDrivesForArray returns to the loop, whichever return it took
PassCallReturns ==
    /\ pc = "done"
    /\ passLog' = Append(passLog, [name |-> deviceName, calls |-> calls,
                                   raid_disks |-> raid_disks,
                                   disks |-> disks])
    /\ pc' = "loop"
    /\ UNCHANGED <<data, before, raid_disks, i, slot, temp, disks, calls,
                   deviceName, dev, passDevices>>

\* return results;
PassReturn ==
    /\ pc = "loop"
    /\ dev = Len(passDevices)
    /\ pc' = "returned"
    /\ UNCHANGED <<data, before, raid_disks, i, slot, temp, disks, calls,
                   deviceName, dev, passDevices, passLog>>

\* the lists of distinct array names parseMDStat can leave in mds.devices
DeviceLists ==
    {l \in UNION {[1..len -> {PassName(j) : j \in 1..MaxArrays}] :
                    len \in 0..MaxArrays} :
        \A a, b \in 1..Len(l) : a # b => l[a] # l[b]}

\* QueryData results; ... the loop is about to start
PassInit ==
    /\ pc = "loop"
    /\ data = <<>>
    /\ before = <<>>
    /\ raid_disks = 0
    /\ i = 0
    /\ slot = 0
    /\ temp = <<>>
    /\ disks = <<>>
    /\ calls = <<>>
    /\ deviceName = <<>>
    /\ dev = 0
    /\ passDevices \in DeviceLists
    /\ passLog = <<>>

DInit ==
    /\ pc = "start"
    /\ data \in {<<>>, <<PriorRow>>}
    /\ before = data
    /\ raid_disks = 0
    /\ i = 0
    /\ slot = 0
    /\ temp = <<>>
    /\ disks = <<>>
    /\ calls = <<>>

----------------------------------------------------------------------------
(* osquery::split and the drive tokens                                     *)

\* boost::algorithm::trim: whitespace off both ends
RECURSIVE TrimRight(_)
TrimRight(s) == IF s # <<>> /\ IsSpace(s[Len(s)])
                THEN TrimRight(SubSeq(s, 1, Len(s) - 1)) ELSE s

Trim(s) == TrimRight(SkipSpace(s))

\* the pieces of s between delimiter characters, empty pieces included
RECURSIVE Pieces(_, _, _)
Pieces(s, delims, cur) ==
    IF s = <<>> THEN <<cur>>
    ELSE IF Head(s) \in delims
         THEN <<cur>> \o Pieces(Tail(s), delims, <<>>)
         ELSE Pieces(Tail(s), delims, Append(cur, Head(s)))

\* split(s, delim): the non-empty pieces, each trimmed
split(s, delims) ==
    LET ps == SelectSeq(Pieces(s, delims, <<>>), LAMBDA x : x # <<>>)
    IN  [k \in 1..Len(ps) |-> Trim(ps[k])]

RECURSIVE Join(_, _)
Join(ss, d) == IF ss = <<>> THEN <<>>
               ELSE IF Len(ss) = 1 THEN ss[1]
               ELSE ss[1] \o d \o Join(Tail(ss), d)

\* split(s, delim, occurences): the first pieces as they are, the remaining
\* ones joined again with the delimiter
splitN(s, d, occurences) ==
    LET content == split(s, {d})
    IN  IF Len(content) <= occurences THEN content
        ELSE Append(SubSeq(content, 1, occurences),
                    Join(SubSeq(content, occurences + 1, Len(content)),
                         <<d>>))

\* the delimiters of split(s) when none is given
DefaultDelims == {" ", "\t"}

\* a default-constructed MDDrive
NoDrive == [name |-> <<>>, pos |-> 0]

\* whether parseMDDrive(name) returns; FALSE where std::stoi throws
parseMDDriveOk(name) ==
    LET start == Find(name, <<"[">>)
        end   == Find(name, <<"]">>)
    IN  \/ start = -1
        \/ end = -1
        \/ stoi(IF end - start - 1 < 0 THEN Substr(name, start + 1)
                ELSE SubstrN(name, start + 1, end - start - 1)).ok

\* parseMDDrive that sets drive.name after the check of the brackets
parseMDDrive_NameAfterCheck(name) ==
    LET start == Find(name, <<"[">>)
        end   == Find(name, <<"]">>)
    IN  IF start = -1 \/ end = -1 THEN NoDrive
        ELSE [name |-> name,
              pos  |-> stoi(IF end - start - 1 < 0
                            THEN Substr(name, start + 1)
                            ELSE SubstrN(name, start + 1,
                                         end - start - 1)).val]

parseMDDrive(name) ==
    LET start == Find(name, <<"[">>)
        end   == Find(name, <<"]">>)
    IN  IF start = -1 \/ end = -1 THEN [NoDrive EXCEPT !.name = name]
        ELSE [name |-> name,
              pos  |-> stoi(IF end - start - 1 < 0
                            THEN Substr(name, start + 1)
                            ELSE SubstrN(name, start + 1,
                                         end - start - 1)).val]

----------------------------------------------------------------------------
(* MD::parseMDStat                                                         *)

\* a default-constructed MDDevice
NoDevice == [name |-> <<>>, status |-> <<>>, raidLevel |-> <<>>,
             drives |-> <<>>, usableSize |-> <<>>, healthyDrives |-> <<>>,
             driveStatuses |-> <<>>, other |-> <<>>, recovery |-> <<>>,
             resync |-> <<>>, reshape |-> <<>>, checkArray |-> <<>>,
             bitmap |-> <<>>]

NoStat == [personalities |-> <<>>, devices |-> <<>>, unused |-> <<>>]

\* the lines parseMDStat is tried on: a well-formed report and the
\* malformed shapes
L_personalities ==
    <<"P", "e", "r", "s", "o", "n", "a", "l", "i", "t", "i", "e", "s", " ",
      ":", " ", "[", "r", "a", "i", "d", "1", "]">>

L_md0 ==
    <<"m", "d", "0", " ", ":", " ", "a", "c", "t", "i", "v", "e", " ", "r",
      "a", "i", "d", "1", " ", "s", "d", "b", "[", "1", "]", " ", "s", "d",
      "a", "[", "0", "]">>

L_config ==
    <<"9", " ", "b", "l", "o", "c", "k", "s", " ", "s", "u", "p", "e", "r",
      " ", "1", ".", "2", " ", "[", "2", "/", "2", "]", " ", "[", "U", "U",
      "]">>

L_recovery ==
    <<"[", ">", ".", "]", " ", "r", "e", "c", "o", "v", "e", "r", "y", " ",
      "=", " ", "1", "2", ".", "3", "%", " ", "(", "1", "/", "8", ")", " ",
      "f", "i", "n", "i", "s", "h", "=", "1", ".", "2", "m", "i", "n", " ",
      "s", "p", "e", "e", "d", "=", "9", "K", "/", "s", "e", "c">>

L_bitmap ==
    <<"b", "i", "t", "m", "a", "p", ":", " ", "0", "/", "1", " ", "p", "a",
      "g", "e", "s", " ", "[", "0", "K", "B", "]", ",", " ", "4", "K", "B",
      " ", "c", "h", "u", "n", "k">>

L_unused ==
    <<"u", "n", "u", "s", "e", "d", " ", "d", "e", "v", "i", "c", "e", "s",
      ":", " ", "<", "n", "o", "n", "e", ">">>

L_md_nocolon ==
    <<"m", "d", "1">>

L_un_short ==
    <<"u", "n", "k", "n", "o", "w", "n">>

L_md_badpos ==
    <<"m", "d", "2", " ", ":", " ", "a", "c", "t", "i", "v", "e", " ", "r",
      "a", "i", "d", "0", " ", "s", "d", "c", "[", "x", "]">>

L_resync ==
    <<"r", "e", "s", "y", "n", "c", " ", "=", " ", "5", "%", " ", "(", "1",
      "/", "8", ")", " ", "f", "i", "n", "i", "s", "h", "=", "2", "m", "i",
      "n", " ", "s", "p", "e", "e", "d", "=", "9", "K", "/", "s", "e", "c">>

L_reshape ==
    <<"r", "e", "s", "h", "a", "p", "e", " ", "=", " ", "1", "%", " ", "(",
      "1", "/", "8", ")", " ", "f", "i", "n", "i", "s", "h", "=", "3", "m",
      "i", "n">>

L_check ==
    <<"[", "=", ">", "]", " ", "c", "h", "e", "c", "k", " ", "=", " ", "7",
      "%", " ", "(", "1", "/", "8", ")", " ", "f", "i", "n", "i", "s", "h",
      "=", "4", "m", "i", "n", " ", "s", "p", "e", "e", "d", "=", "1", "K",
      "/", "s", "e", "c">>

L_other ==
    <<"f", "o", "o">>

LineSet == {L_personalities, L_md0, L_config, L_recovery, L_bitmap, L_unused,
            L_md_nocolon, L_un_short, L_md_badpos, L_other, L_resync,
            L_reshape, L_check}

\* what an out-of-range lines[k] can find in memory: an empty string or
\* the remains of an earlier line
Garbage == {<<>>, L_bitmap}

\* the values lines[k] can yield (k is 0-based)
LineAt(k) == IF k < Len(lines) THEN {lines[k + 1]}
             ELSE IF k < Len(lines) + MaxOverrun THEN Garbage
             ELSE {<<>>}

\* the array line: name, status, raid level and the drive tokens
MdHeader(line) ==
    LET mdline   == splitN(line, ":", 1)
        settings == LET t == split(mdline[2], {" "})
                    IN  [k \in 1..Len(t) |-> trimStr(t[k])]
        named    == [NoDevice EXCEPT !.name = trimStr(mdline[1])]
    IN  IF Len(settings) >= 2
        THEN [named EXCEPT
                !.status = settings[1],
                !.raidLevel = settings[2],
                !.drives = [k \in 1..(Len(settings) - 2) |->
                               parseMDDrive(settings[k + 2])]]
        ELSE named

MdHeaderOk(line) ==
    LET settings == split(splitN(line, ":", 1)[2], {" "})
    IN  \A k \in 3..Len(settings) : parseMDDriveOk(trimStr(settings[k]))

RECURSIVE ConcatOther(_)
ConcatOther(ts) == IF ts = <<>> THEN <<>>
                   ELSE <<" ">> \o Head(ts) \o ConcatOther(Tail(ts))

\* the config line: usable size, healthy drives, drive statuses, other
MdConfig(d, line) ==
    LET cl == LET t == split(line, DefaultDelims)
              IN  [k \in 1..Len(t) |-> trimStr(t[k])]
    IN  IF Len(cl) < 4 THEN d
        ELSE [d EXCEPT
                !.usableSize = cl[1] \o <<" ">> \o cl[2],
                !.healthyDrives = cl[Len(cl) - 1],
                !.driveStatuses = cl[Len(cl)],
                !.other = IF Len(cl) > 4
                          THEN d.other \o ConcatOther(SubSeq(cl, 3, Len(cl) - 2))
                          ELSE d.other]

\* the markers of the lines that may follow the config line, in the order
\* the code tries them
Markers == <<[pat |-> S_recovery, field |-> "recovery"],
             [pat |-> S_resync, field |-> "resync"],
             [pat |-> S_reshape, field |-> "reshape"],
             [pat |-> S_check, field |-> "checkArray"],
             [pat |-> S_bitmap, field |-> "bitmap"]>>

MarkersIn(line) == {k \in 1..Len(Markers) : Find(line, Markers[k].pat) # -1}

FirstMarker(line) ==
    CHOOSE k \in MarkersIn(line) : \A j \in MarkersIn(line) : k <= j

\* one pass through the body of while (true) when a marker is found
MdContinuation(d, line) ==
    LET m    == Markers[FirstMarker(line)]
        text == trimStr(Substr(line, Find(line, m.pat) + Len(m.pat)))
    IN  [d EXCEPT ![m.field] = text]

\* if (lines.size() < 1) return; then the Personalities line
PStart ==
    /\ ppc = "start"
    /\ IF Len(lines) < 1
       THEN /\ ppc' = "done"
            /\ UNCHANGED <<n, result>>
       ELSE /\ ppc' = "loop"
            /\ IF Find(lines[1], S_Personalities) # -1
               THEN /\ result' = [result EXCEPT !.personalities =
                                     Substr(lines[1], Len(S_Personalities))]
                    /\ n' = 1
               ELSE UNCHANGED <<n, result>>
    /\ UNCHANGED <<lines, mdd, iters, oob>>

\* while (n < lines.size()) is false
PReturn ==
    /\ ppc = "loop"
    /\ n >= Len(lines)
    /\ ppc' = "done"
    /\ UNCHANGED <<lines, n, result, mdd, iters, oob>>

\* the line at the cursor and its first two characters
AtLine == ppc = "loop" /\ n < Len(lines) /\ iters <= Len(lines)

FirstTwo == SubstrN(lines[n + 1], 0, 2)

\* an "md" line without two pieces around a colon: continue
PMdMalformed ==
    /\ AtLine
    /\ FirstTwo = <<"m", "d">>
    /\ Len(splitN(lines[n + 1], ":", 1)) < 2
    /\ iters' = iters + 1
    /\ UNCHANGED <<lines, n, ppc, result, mdd, oob>>

\* an "md" line: the name, status, raid level and drives of a new MDDevice
PMdLine ==
    /\ AtLine
    /\ FirstTwo = <<"m", "d">>
    /\ Len(splitN(lines[n + 1], ":", 1)) >= 2
    /\ iters' = iters + 1
    /\ IF MdHeaderOk(lines[n + 1])
       THEN /\ mdd' = MdHeader(lines[n + 1])
            /\ ppc' = "config"
       ELSE /\ ppc' = "raised"
            /\ UNCHANGED mdd
    /\ UNCHANGED <<lines, n, result, oob>>

\* the line after the "md" line is read as the config line
PConfig ==
    /\ ppc = "config"
    /\ \E line \in LineAt(n + 1) : mdd' = MdConfig(mdd, line)
    /\ oob' = (oob \/ n + 1 >= Len(lines))
    /\ n' = n + 1
    /\ ppc' = "more"
    /\ UNCHANGED <<lines, result, iters>>

\* while (true): the next line holds a marker and is consumed
PContinuation ==
    /\ ppc = "more"
    /\ \E line \in LineAt(n + 1) :
          /\ MarkersIn(line) # {}
          /\ mdd' = MdContinuation(mdd, line)
    /\ oob' = (oob \/ n + 1 >= Len(lines))
    /\ n' = n + 1
    /\ UNCHANGED <<lines, ppc, result, iters>>

\* PEndBlock with one n += 1 too many
PEndBlock_SkipsLine ==
    /\ ppc = "more"
    /\ \E line \in LineAt(n + 1) : MarkersIn(line) = {}
    /\ oob' = (oob \/ n + 1 >= Len(lines))
    /\ result' = [result EXCEPT !.devices = Append(result.devices, mdd)]
    /\ mdd' = NoDevice
    /\ n' = n + 2
    /\ ppc' = "loop"
    /\ UNCHANGED <<lines, iters>>

\* while (true): the next line holds no marker: break, push_back, n += 1
PEndBlock ==
    /\ ppc = "more"
    /\ \E line \in LineAt(n + 1) : MarkersIn(line) = {}
    /\ oob' = (oob \/ n + 1 >= Len(lines))
    /\ result' = [result EXCEPT !.devices = Append(result.devices, mdd)]
    /\ mdd' = NoDevice
    /\ n' = n + 1
    /\ ppc' = "loop"
    /\ UNCHANGED <<lines, iters>>

\* an out-of-range lines[n + 1] touches memory the process may not read
PCrash ==
    /\ ppc \in {"config", "more"}
    /\ n + 1 >= Len(lines)
    /\ oob' = TRUE
    /\ ppc' = "crashed"
    /\ UNCHANGED <<lines, n, result, mdd, iters>>

\* an "un" line: what follows the first 15 characters is the unused field
PUnused ==
    /\ AtLine
    /\ FirstTwo = <<"u", "n">>
    /\ iters' = iters + 1
    /\ IF SubstrOk(lines[n + 1], Len(S_unused_devices))
       THEN /\ result' = [result EXCEPT !.unused =
                             Substr(lines[n + 1], Len(S_unused_devices))]
            /\ n' = n + 1
            /\ UNCHANGED ppc
       ELSE /\ ppc' = "raised"
            /\ UNCHANGED <<n, result>>
    /\ UNCHANGED <<lines, mdd, oob>>

\* any other line: a warning, and on to the next line
PUnexpected ==
    /\ AtLine
    /\ FirstTwo # <<"m", "d">>
    /\ FirstTwo # <<"u", "n">>
    /\ iters' = iters + 1
    /\ n' = n + 1
    /\ UNCHANGED <<lines, ppc, result, mdd, oob>>

----------------------------------------------------------------------------
(* The loop of parseMDStat over the drive tokens of an md line             *)

\* the drive tokens the loop is tried on
Token ==
    [sda0 |-> <<"s", "d", "a", "[", "0", "]">>,
     sdb12 |-> <<"s", "d", "b", "[", "1", "2", "]">>,
     sdc1F |-> <<"s", "d", "c", "[", "1", "]", "(", "F", ")">>,
     nobrackets |-> <<"s", "d", "d">>,
     noclose |-> <<"s", "d", "e", "[", "2">>,
     noopen |-> <<"s", "d", "f", "]">>,
     badpos |-> <<"s", "d", "c", "[", "x", "]">>]


TokenSet == {Token[f] : f \in DOMAIN Token}

\* mdd.drives.push_back(parseMDDrive(settings[i])), or std::stoi throws
ParseDrive ==
    /\ tpc = "loop"
    /\ ti < Len(tokens)
    /\ IF parseMDDriveOk(tokens[ti + 1])
       THEN /\ drives' = Append(drives, parseMDDrive(tokens[ti + 1]))
            /\ ti' = ti + 1
            /\ UNCHANGED tpc
       ELSE /\ tpc' = "raised"
            /\ UNCHANGED <<drives, ti>>
    /\ UNCHANGED tokens

\* i < settings.size() is false
DrivesDone ==
    /\ tpc = "loop"
    /\ ti = Len(tokens)
    /\ tpc' = "done"
    /\ UNCHANGED <<tokens, ti, drives>>

TInit ==
    /\ tokens \in UNION {[1..len -> TokenSet] : len \in 0..MaxTokens}
    /\ ti = 0
    /\ drives = <<>>
    /\ tpc = "loop"

TIdle ==
    /\ tokens = <<>>
    /\ ti = 0
    /\ drives = <<>>
    /\ tpc = "idle"

----------------------------------------------------------------------------
(* genMDDevices                                                            *)

\* the column names of a row, and the suffixes handleR appends
Column ==
    [device_name |-> <<"d", "e", "v", "i", "c", "e", "_", "n", "a", "m",
         "e">>,
     status |-> <<"s", "t", "a", "t", "u", "s">>,
     raid_level |-> <<"r", "a", "i", "d", "_", "l", "e", "v", "e", "l">>,
     healthy_drives |-> <<"h", "e", "a", "l", "t", "h", "y", "_", "d", "r",
         "i", "v", "e", "s">>,
     usable_size |-> <<"u", "s", "a", "b", "l", "e", "_", "s", "i", "z",
         "e">>,
     unused_devices |-> <<"u", "n", "u", "s", "e", "d", "_", "d", "e", "v",
         "i", "c", "e", "s">>,
     bitmap_on_mem |-> <<"b", "i", "t", "m", "a", "p", "_", "o", "n", "_",
         "m", "e", "m">>,
     bitmap_chunk_size |-> <<"b", "i", "t", "m", "a", "p", "_", "c", "h",
         "u", "n", "k", "_", "s", "i", "z", "e">>,
     bitmap_external_file |-> <<"b", "i", "t", "m", "a", "p", "_", "e",
         "x", "t", "e", "r", "n", "a", "l", "_", "f", "i", "l", "e">>,
     suffix_progress |-> <<"_", "p", "r", "o", "g", "r", "e", "s", "s">>,
     suffix_finish |-> <<"_", "f", "i", "n", "i", "s", "h">>,
     suffix_speed |-> <<"_", "s", "p", "e", "e", "d">>]

\* the prefixes handed to handleR
Prefix ==
    [discovery |-> <<"d", "i", "s", "c", "o", "v", "e", "r", "y">>,
     resync |-> <<"r", "e", "s", "y", "n", "c">>,
     reshape |-> <<"r", "e", "s", "h", "a", "p", "e">>,
     check_array |-> <<"c", "h", "e", "c", "k", "_", "a", "r", "r", "a",
         "y">>]

\* the labels stripped from the pieces and searched in the bitmap line
Label ==
    [finish |-> <<"f", "i", "n", "i", "s", "h", "=">>,
     speed |-> <<"s", "p", "e", "e", "d", "=">>,
     file |-> <<"f", "i", "l", "e", ":">>]

\* the field values genMDDevices is tried on
Sample ==
    [progress |-> <<"1", "2", ".", "3", "%", " ", "(", "1", "/", "8", ")",
         " ", "f", "i", "n", "i", "s", "h", "=", "1", ".", "2", "m", "i",
         "n", " ", "s", "p", "e", "e", "d", "=", "9", "K", "/", "s", "e",
         "c">>,
     short_progress |-> <<"1", "2", ".", "3", "%", " ", "(", "1", "/", "8",
         ")", " ", "f", "i", "n", "i", "s", "h", "=", "1", ".", "2", "m",
         "i", "n">>,
     bitmap_file |-> <<"1", "K", "B", ",", " ", "4", "K", "B", ",", " ",
         "f", "i", "l", "e", ":", " ", "/", "b">>,
     short_bitmap |-> <<"1", "K", "B">>,
     status |-> <<"a", "c", "t", "i", "v", "e">>,
     raidLevel |-> <<"r", "a", "i", "d", "1">>,
     healthyDrives |-> <<"[", "2", "/", "2", "]">>,
     usableSize |-> <<"9", " ", "b", "l", "o", "c", "k", "s">>,
     unused |-> <<" ", "<", "n", "o", "n", "e", ">">>]

\* s.find_first_not_of(chars): 0-based index, or -1 for npos
RECURSIVE FirstNotOfSet(_, _, _)
FirstNotOfSet(str, chars, k) ==
    IF k > Len(str) THEN -1
    ELSE IF \A c \in 1..Len(chars) : str[k] # chars[c] THEN k - 1
    ELSE FirstNotOfSet(str, chars, k + 1)

\* pieces[k].substr(start) when some character is not in the label, else
\* the piece itself
StripLabel(piece, label) ==
    IF FirstNotOfSet(piece, label, 1) # -1
    THEN Substr(piece, FirstNotOfSet(piece, label, 1))
    ELSE piece

\* r[key] = value
SetCol(r, key, value) == (key :> value) @@ r

\* the lambda handleR: the three columns of one operation
handleR(r, line, prefix) ==
    LET pieces == LET t == split(line, {" "})
                  IN  [k \in 1..Len(t) |-> trimStr(t[k])]
    IN  IF Len(pieces) # 4 THEN r
        ELSE SetCol(SetCol(SetCol(r,
                 prefix \o Column.suffix_progress,
                 pieces[1] \o <<" ">> \o pieces[2]),
                 prefix \o Column.suffix_finish,
                 StripLabel(pieces[3], Label.finish)),
                 prefix \o Column.suffix_speed,
                 StripLabel(pieces[4], Label.speed))

\* the bitmap columns
BitmapCols(r, bitmap) ==
    LET infos == LET t == split(bitmap, {","})
                 IN  [k \in 1..Len(t) |-> trimStr(t[k])]
        two   == SetCol(SetCol(r, Column.bitmap_on_mem, infos[1]),
                        Column.bitmap_chunk_size, infos[2])
    IN  IF Len(infos) < 2 THEN r
        ELSE IF Len(infos) > 2 /\ Find(infos[3], Label.file) # -1
             THEN SetCol(two, Column.bitmap_external_file,
                         trimStr(Substr(infos[3],
                                        Find(infos[3], Label.file) + Len(Label.file))))
             ELSE two

\* the Row r built for one device
DeviceRow(device, unused) ==
    LET r0 == (Column.device_name :> device.name)
              @@ (Column.status :> device.status)
              @@ (Column.raid_level :> device.raidLevel)
              @@ (Column.healthy_drives :> device.healthyDrives)
              @@ (Column.usable_size :> device.usableSize)
        r1 == IF device.recovery # <<>>
              THEN handleR(r0, device.recovery, Prefix.discovery) ELSE r0
        r2 == IF device.resync # <<>>
              THEN handleR(r1, device.resync, Prefix.resync) ELSE r1
        r3 == IF device.reshape # <<>>
              THEN handleR(r2, device.reshape, Prefix.reshape) ELSE r2
        r4 == IF device.checkArray # <<>>
              THEN handleR(r3, device.checkArray, Prefix.check_array) ELSE r3
        r5 == IF device.bitmap # <<>>
              THEN BitmapCols(r4, device.bitmap) ELSE r4
    IN  SetCol(r5, Column.unused_devices, unused)

\* one iteration of for (auto& device : mds.devices)
EmitDevice ==
    /\ mpc = "loop"
    /\ mi < Len(mds.devices)
    /\ results' = Append(results, DeviceRow(mds.devices[mi + 1], mds.unused))
    /\ mi' = mi + 1
    /\ UNCHANGED <<mds, mpc>>

\* return results;
DevicesReturn ==
    /\ mpc = "loop"
    /\ mi = Len(mds.devices)
    /\ mpc' = "done"
    /\ UNCHANGED <<mds, mi, results>>

\* the array records parseMDStat can have left in mds.devices
ParsedDevices ==
    {[NoDevice EXCEPT !.name = nm, !.status = Sample.status,
                      !.raidLevel = Sample.raidLevel, !.healthyDrives = Sample.healthyDrives,
                      !.usableSize = Sample.usableSize, !.recovery = rc, !.resync = rs,
                      !.reshape = rh, !.checkArray = ck, !.bitmap = bm] :
        nm \in {S_md0, S_md1}, rc \in {<<>>, Sample.progress, Sample.short_progress},
        rs \in {<<>>, Sample.progress}, rh \in {<<>>, Sample.progress}, ck \in {<<>>, Sample.progress},
        bm \in {<<>>, Sample.bitmap_file, Sample.short_bitmap}}

\* after getLines and parseMDStat, the loop is about to start
MInit ==
    /\ mds \in {[NoStat EXCEPT !.devices = ds, !.unused = Sample.unused] :
                  ds \in UNION {[1..len -> ParsedDevices] :
                                  len \in 0..MaxDevices}}
    /\ mi = 0
    /\ results = <<>>
    /\ mpc = "loop"

MIdle ==
    /\ mds = NoStat
    /\ mi = 0
    /\ results = <<>>
    /\ mpc = "idle"

DIdle ==
    /\ pc = "idle"
    /\ data = <<>>
    /\ before = <<>>
    /\ raid_disks = 0
    /\ i = 0
    /\ slot = 0
    /\ temp = <<>>
    /\ disks = <<>>
    /\ calls = <<>>

Inputs == UNION {[1..len -> LineSet] : len \in 0..MaxLines}

PInit ==
    /\ lines \in Inputs
    /\ n = 0
    /\ ppc = "start"
    /\ result = NoStat
    /\ mdd = NoDevice
    /\ iters = 0
    /\ oob = FALSE

\* getDrivesForArray called on its own, as the tests call it
GSingle ==
    /\ deviceName = ArrayName
    /\ dev = 0
    /\ passDevices = <<>>
    /\ passLog = <<>>

----------------------------------------------------------------------------
(* MD::getDiskInfo and MD::getArrayInfo: open, ioctl, return               *)

\* what the process may have open when a control query starts
InitialFds == {{0, 1, 2}, {0, 1, 2, 3}, {0, 1, 2, 4}}

\* open(2) returns the lowest descriptor not in use
LowestFree(fds) == CHOOSE k \in 0..(Cardinality(fds)) :
                      k \notin fds /\ \A j \in 0..(k - 1) : j \in fds

\* the function is entered
QEnter ==
    /\ fpc \in {"start", "returned"}
    /\ Len(returns) < MaxQueries
    /\ \E f \in {"getDiskInfo", "getArrayInfo"} : fn' = f
    /\ fdsBefore' = openFds
    /\ fpc' = "open"
    /\ UNCHANGED <<fd, status, openFds, returns>>

\* fd = open(name.c_str(), O_RDONLY): a new descriptor, or -1
QOpen ==
    /\ fpc = "open"
    /\ \/ /\ fd' = LowestFree(openFds)
          /\ openFds' = openFds \cup {LowestFree(openFds)}
       \/ /\ fd' = -1
          /\ openFds' = openFds
    /\ fpc' = "ioctl"
    /\ UNCHANGED <<fn, status, fdsBefore, returns>>

\* int status = ioctl(fd, GET_DISK_INFO or GET_ARRAY_INFO, ...)
QIoctl ==
    /\ fpc = "ioctl"
    /\ status' \in (IF fd = -1 THEN {-1} ELSE {0, -1})
    /\ fpc' = "return"
    /\ UNCHANGED <<fn, fd, openFds, fdsBefore, returns>>

\* QReturn that runs the deleter on the success path only
QReturn_LeakOnFailure ==
    /\ fpc = "return"
    /\ returns' = Append(returns, status # -1)
    /\ openFds' = IF status # -1 THEN openFds \ {fd} ELSE openFds
    /\ fpc' = "returned"
    /\ UNCHANGED <<fn, fd, status, fdsBefore>>

\* return false (status == -1) or return true; leaving the scope destroys
\* the unique_ptr, whose deleter fClose does close(*fd)
QReturn ==
    /\ fpc = "return"
    /\ returns' = Append(returns, status # -1)
    /\ openFds' = openFds \ {fd}
    /\ fpc' = "returned"
    /\ UNCHANGED <<fn, fd, status, fdsBefore>>

FInit ==
    /\ fpc = "start"
    /\ fn = "none"
    /\ fd = 0
    /\ status = 0
    /\ openFds \in InitialFds
    /\ fdsBefore = openFds
    /\ returns = <<>>

FIdle ==
    /\ fpc = "idle"
    /\ fn = "none"
    /\ fd = 0
    /\ status = 0
    /\ openFds = {}
    /\ fdsBefore = {}
    /\ returns = <<>>

InitParse == DIdle /\ PInit /\ GSingle /\ SIdle /\ FIdle /\ TIdle /\ MIdle

NextParse ==
    \/ PStart /\ UNCHANGED <<dvars, gvars, svars, fvars, tvars, mvars>>
    \/ PReturn /\ UNCHANGED <<dvars, gvars, svars, fvars, tvars, mvars>>
    \/ PMdMalformed /\ UNCHANGED <<dvars, gvars, svars, fvars, tvars, mvars>>
    \/ PMdLine /\ UNCHANGED <<dvars, gvars, svars, fvars, tvars, mvars>>
    \/ PConfig /\ UNCHANGED <<dvars, gvars, svars, fvars, tvars, mvars>>
    \/ PContinuation /\ UNCHANGED <<dvars, gvars, svars, fvars, tvars, mvars>>
    \/ PEndBlock /\ UNCHANGED <<dvars, gvars, svars, fvars, tvars, mvars>>
    \/ PCrash /\ UNCHANGED <<dvars, gvars, svars, fvars, tvars, mvars>>
    \/ PUnused /\ UNCHANGED <<dvars, gvars, svars, fvars, tvars, mvars>>
    \/ PUnexpected /\ UNCHANGED <<dvars, gvars, svars, fvars, tvars, mvars>>

SpecParse == InitParse /\ [][NextParse]_vars

\* the specification of getDrivesForArray: the parser is not running
PIdle ==
    /\ lines = <<>>
    /\ n = 0
    /\ ppc = "idle"
    /\ result = NoStat
    /\ mdd = NoDevice
    /\ iters = 0
    /\ oob = FALSE

Init == DInit /\ PIdle /\ GSingle /\ SIdle /\ FIdle /\ TIdle /\ MIdle

Next ==
    \/ GetPath /\ UNCHANGED <<pvars, gvars, svars, fvars, tvars, mvars>>
    \/ GetArrayInfoFails
          /\ UNCHANGED <<pvars, gvars, svars, fvars, tvars, mvars>>
    \/ GetArrayInfoOk /\ UNCHANGED <<pvars, gvars, svars, fvars, tvars, mvars>>
    \/ Scan /\ UNCHANGED <<pvars, gvars, svars, fvars, tvars, mvars>>
    \/ Resolve /\ UNCHANGED <<pvars, gvars, svars, fvars, tvars, mvars>>
    \/ Insert /\ UNCHANGED <<pvars, gvars, svars, fvars, tvars, mvars>>

Spec == Init /\ [][Next]_vars

\* the specification of genMDDrives
InitPass == PassInit /\ PIdle /\ SIdle /\ FIdle /\ TIdle /\ MIdle

NextPass ==
    \/ PassCall /\ UNCHANGED <<pvars, svars, fvars, tvars, mvars>>
    \/ GetPath /\ UNCHANGED <<pvars, gvars, svars, fvars, tvars, mvars>>
    \/ GetArrayInfoFails
          /\ UNCHANGED <<pvars, gvars, svars, fvars, tvars, mvars>>
    \/ GetArrayInfoOk /\ UNCHANGED <<pvars, gvars, svars, fvars, tvars, mvars>>
    \/ Scan /\ UNCHANGED <<pvars, gvars, svars, fvars, tvars, mvars>>
    \/ Resolve /\ UNCHANGED <<pvars, gvars, svars, fvars, tvars, mvars>>
    \/ Insert /\ UNCHANGED <<pvars, gvars, svars, fvars, tvars, mvars>>
    \/ PassCallReturns /\ UNCHANGED <<pvars, svars, fvars, tvars, mvars>>
    \/ PassReturn /\ UNCHANGED <<pvars, svars, fvars, tvars, mvars>>

SpecPass == InitPass /\ [][NextPass]_vars

\* the specification of getDiskStateStr
InitState == SInit /\ DIdle /\ PIdle /\ GSingle /\ FIdle /\ TIdle /\ MIdle

NextState == GetDiskStateStr
    /\ UNCHANGED <<dvars, pvars, gvars, fvars, tvars, mvars>>

SpecState == InitState /\ [][NextState]_vars

\* the specification of the two control queries
InitFd == FInit /\ DIdle /\ PIdle /\ GSingle /\ SIdle /\ TIdle /\ MIdle

NextFd ==
    \/ QEnter /\ UNCHANGED <<dvars, pvars, gvars, svars, tvars, mvars>>
    \/ QOpen /\ UNCHANGED <<dvars, pvars, gvars, svars, tvars, mvars>>
    \/ QIoctl /\ UNCHANGED <<dvars, pvars, gvars, svars, tvars, mvars>>
    \/ QReturn /\ UNCHANGED <<dvars, pvars, gvars, svars, tvars, mvars>>

SpecFd == InitFd /\ [][NextFd]_vars

\* the specification of the loop over the drive tokens
InitDrive ==
    TInit /\ DIdle /\ PIdle /\ GSingle /\ SIdle /\ FIdle /\ MIdle

NextDrive ==
    \/ ParseDrive
          /\ UNCHANGED <<dvars, pvars, gvars, svars, fvars, mvars>>
    \/ DrivesDone
          /\ UNCHANGED <<dvars, pvars, gvars, svars, fvars, mvars>>

SpecDrive == InitDrive /\ [][NextDrive]_vars

\* the specification of genMDDevices
InitDevices ==
    MInit /\ DIdle /\ PIdle /\ GSingle /\ SIdle /\ FIdle /\ TIdle

NextDevices ==
    \/ EmitDevice
          /\ UNCHANGED <<dvars, pvars, gvars, svars, fvars, tvars>>
    \/ DevicesReturn
          /\ UNCHANGED <<dvars, pvars, gvars, svars, fvars, tvars>>

SpecDevices == InitDevices /\ [][NextDevices]_vars

----------------------------------------------------------------------------
(* Vocabulary of the properties of getDrivesForArray                       *)

\* the rows this call appended to the caller's output
Appended == SubSeq(data, Len(before) + 1, Len(data))

HasCall(name) == \E k \in 1..Len(calls) : calls[k].fn = name

PathFailed ==
    \E k \in 1..Len(calls) : calls[k].fn = "getPathByDevName" /\ ~calls[k].ok

ArrayInfoFailed ==
    \E k \in 1..Len(calls) : calls[k].fn = "getArrayInfo" /\ ~calls[k].ok

ArrayInfoOk ==
    \E k \in 1..Len(calls) : calls[k].fn = "getArrayInfo" /\ calls[k].ok

\* the call ran the scan and the missing-slot pass and has returned
Reconciled == pc = "done" /\ ArrayInfoOk

\* indices (into disks) of the disks that have a device node
Live == {k \in 1..Len(disks) : disks[k].ok /\ disks[k].major > 0}

FailedQueries == {k \in 1..Len(disks) : ~disks[k].ok}

\* reportedSlot < 0 and queried slot number >= N
Ambiguous == {k \in Live : disks[k].raid_disk < 0
                           /\ disks[k].number >= raid_disks}

\* the slot a live, non-ambiguous disk carries out of the scan
Provisional(k) == IF disks[k].raid_disk >= 0 THEN disks[k].raid_disk
                  ELSE disks[k].number

\* the slots of [0, N) that no live disk carries out of the scan
Missing == {s \in 0..(raid_disks - 1) :
              \A k \in Live \ Ambiguous : Provisional(k) # s}

\* no two live disks carry the same slot, none carries a slot >= N, and
\* every slot-ambiguous disk finds a missing slot to take
Regular ==
    /\ \A k \in Live \ Ambiguous : Provisional(k) < raid_disks
    /\ \A j, k \in Live \ Ambiguous : j # k => Provisional(j) # Provisional(k)
    /\ Cardinality(Ambiguous) <= Cardinality(Missing)

RowsWithSlot(s) == {k \in 1..Len(Appended) : Appended[k].slot = to_string(s)}

SlotsArePermutation ==
    /\ \A s \in 0..(raid_disks - 1) : Cardinality(RowsWithSlot(s)) = 1
    /\ \A k \in 1..Len(Appended) :
          \E s \in 0..(raid_disks - 1) : Appended[k].slot = to_string(s)

----------------------------------------------------------------------------
(* Properties of getDrivesForArray                                         *)

\* C1 as stated: one call of getDrivesForArray appends exactly N rows,
\* whatever the per-slot getDiskInfo results are.
C1_ExactlyNRows == Reconciled => Len(Appended) = raid_disks

\* C1 as amended: the call appends at least N rows, and exactly N rows when
\* no two live disks carry the same slot, no live disk carries a slot >= N
\* and the slot-ambiguous disks do not outnumber the missing slots.
C1_AtLeastNRows ==
    Reconciled => /\ Len(Appended) >= raid_disks
                  /\ Regular => Len(Appended) = raid_disks

\* two live disks confirmed in the same slot: more than N rows come out
C1_Witness ==
    /\ Reconciled
    /\ raid_disks >= 1
    /\ ~Regular
    /\ Len(Appended) > raid_disks
    /\ \E j, k \in Live : j # k /\ disks[j].raid_disk = disks[k].raid_disk
                          /\ disks[j].raid_disk >= 0

\* C2 as stated: with at most one slot-ambiguous disk, the slots of the rows
\* are a permutation of [0, N).
C2_SlotsPermutation ==
    (Reconciled /\ Cardinality(Ambiguous) <= 1) => SlotsArePermutation

\* C2 as amended: with at most one slot-ambiguous disk every value 0..N-1
\* occurs as the slot of at least one row; the slots are a permutation of
\* [0, N) when, in addition, no two live disks carry the same slot, none
\* carries a slot >= N and the ambiguous disk, if any, has a missing slot
\* to take.
C2_SlotsCovered ==
    (Reconciled /\ Cardinality(Ambiguous) <= 1) =>
        /\ \A s \in 0..(raid_disks - 1) : RowsWithSlot(s) # {}
        /\ Regular => SlotsArePermutation

\* a mix of active, faulty and absent disks with exactly one slot-ambiguous
\* disk that takes a missing slot
C2_Witness ==
    /\ Reconciled
    /\ raid_disks >= 2
    /\ Cardinality(Ambiguous) = 1
    /\ Regular
    /\ \E k \in Live : disks[k].state = 6
    /\ Len(Appended) > Cardinality(Live)
    /\ SlotsArePermutation

AllHealthy ==
    /\ Cardinality(Live) = raid_disks
    /\ \A k \in Live : disks[k].state = 6 /\ disks[k].raid_disk >= 0
    /\ \A s \in 0..(raid_disks - 1) :
          Cardinality({k \in Live : disks[k].raid_disk = s}) = 1

\* C4: N live disks, all active+sync with confirmed slots 0..N-1, give
\* exactly N rows: for each disk the row {array name, the name getDevName
\* gives for its (major, minor), "active sync", its confirmed slot}.
C4_AllHealthy ==
    (Reconciled /\ AllHealthy) =>
        /\ Len(Appended) = raid_disks
        /\ \A k \in Live :
              \E r \in 1..Len(Appended) :
                 Appended[r] =
                    [md_device_name |-> ArrayName,
                     drive_name |-> getDevName(disks[k].major, disks[k].minor),
                     state |-> S_active_sync,
                     slot |-> to_string(disks[k].raid_disk)]

\* healthy disks whose confirmed slot differs from the queried slot number
C4_Witness ==
    /\ Reconciled
    /\ AllHealthy
    /\ raid_disks >= 2
    /\ \E k \in Live : disks[k].raid_disk # disks[k].number
    /\ Len(Appended) = raid_disks

\* C5: after a failed getArrayInfo the call has returned, no getDiskInfo or
\* getDevName call is ever made and the caller's output is as it was.
C5_ArrayInfoFailure ==
    ArrayInfoFailed =>
        /\ pc = "done"
        /\ ~HasCall("getDiskInfo")
        /\ ~HasCall("getDevName")
        /\ data = before

C5_Witness == ArrayInfoFailed /\ pc = "done" /\ data = <<PriorRow>>

\* C6: after getPathByDevName returned "" the call has returned, no
\* getArrayInfo, getDiskInfo or getDevName call is ever made and the
\* caller's output is as it was.
C6_PathFailure ==
    PathFailed =>
        /\ pc = "done"
        /\ ~HasCall("getArrayInfo")
        /\ ~HasCall("getDiskInfo")
        /\ ~HasCall("getDevName")
        /\ data = before

C6_Witness == PathFailed /\ pc = "done" /\ Len(calls) = 1
              /\ data = <<PriorRow>>

\* a std::string that is the decimal form of a non-negative integer
IsNatString(str) ==
    /\ str # <<>>
    /\ \A k \in 1..Len(str) : IsDigit(str[k])

\* C9: every row getDrivesForArray appends carries a slot that is the
\* decimal string of a non-negative integer.
C9_SlotsNonNegative ==
    pc = "done" => \A k \in 1..Len(Appended) : IsNatString(Appended[k].slot)

\* a failed query replaced by the answer "no device node in this slot"
AsAbsent(d) == IF d.ok THEN d
               ELSE [ok |-> TRUE, number |-> d.number, raid_disk |-> -1,
                     state |-> 8, major |-> 0, minor |-> 0]

\* the scan loop and the missing-slot loop run over a whole list of answers
RECURSIVE ScanAll(_, _, _)
ScanAll(t, N, ds) ==
    IF ds = <<>> THEN t
    ELSE ScanAll(ScanDisk(t, ArrayName, N, Head(ds)), N, Tail(ds))

RECURSIVE ResolveAll(_, _, _)
ResolveAll(t, N, s) ==
    IF s >= N THEN t
    ELSE ResolveAll(ResolveSlot(t, ArrayName, s), N, s + 1)

RowsIfAbsent ==
    ResolveAll(ScanAll(<<>>, raid_disks,
                       [k \in 1..Len(disks) |-> AsAbsent(disks[k])]),
               raid_disks, 0)

\* C10: a failed getDiskInfo is not fatal: every slot number 0..MAX_SLOTS-1
\* is still queried, and the rows appended are those reconciliation gives
\* when each failed slot number reports no live device instead.
C10_FailureIsSkipped ==
    Reconciled =>
        /\ \A k \in 0..(MD_SB_DISKS - 1) :
              \E c \in 1..Len(calls) :
                 calls[c].fn = "getDiskInfo" /\ calls[c].a = k
        /\ Appended = RowsIfAbsent

\* a failed query followed by a disk with a device node
C10_Witness ==
    /\ Reconciled
    /\ raid_disks >= 2
    /\ \E j \in FailedQueries : \E k \in Live : j < k
    /\ Len(Appended) >= raid_disks

\* the position in temp of the row of the live disk disks[k]
LiveRank(k) == Cardinality({j \in Live : j <= k})

\* the scan loop is running or has just ended
ScanPhase == ArrayInfoOk /\ (pc = "scan" \/ (pc = "resolve" /\ slot = 0))

IsPlaceholder(r) == r.drive_name = S_unknown /\ r.state = S_removed

\* the rows of temp whose slot is still negative
Unconsumed(t) == {k \in 1..Len(t) : Head(t[k].slot) = "-"}

MaxOf(S) == CHOOSE k \in S : \A j \in S : j <= k

\* C13: last-seen-wins. In the pass over the slots s = 0..N-1, a slot that
\* no row carries goes to the unconsumed slot-ambiguous row scanned last;
\* a placeholder {"unknown", "removed", s} is appended only when no
\* unconsumed ambiguous row is left; a slot some row carries changes nothing.
C13_LastSeenWins ==
    [][(pc = "resolve" /\ slot < raid_disks /\ slot' = slot + 1) =>
         IF \E k \in 1..Len(temp) : temp[k].slot = to_string(slot)
         THEN temp' = temp
         ELSE IF Unconsumed(temp) # {}
              THEN temp' = [temp EXCEPT
                              ![MaxOf(Unconsumed(temp))].slot = to_string(slot)]
              ELSE temp' = Append(temp, [md_device_name |-> ArrayName,
                                         drive_name |-> S_unknown,
                                         state |-> S_removed,
                                         slot |-> to_string(slot)])]_vars

\* of two slot-ambiguous rows the later one has taken a slot and the
\* earlier one has not
C13_Witness ==
    /\ pc = "resolve"
    /\ slot >= 1
    /\ \E j, k \in Ambiguous :
          /\ j < k
          /\ Head(temp[LiveRank(j)].slot) = "-"
          /\ temp[LiveRank(k)].slot = to_string(0)

\* C14: the appended rows are, first, one row per live disk in the order of
\* the queried slot numbers, then the placeholder rows in ascending order of
\* their slot; a row whose slot is reassigned stays where it is.
C14_RowOrder ==
    Reconciled =>
        /\ Len(Appended) >= Cardinality(Live)
        /\ \A k \in Live :
              /\ Appended[LiveRank(k)].drive_name =
                    getDevName(disks[k].major, disks[k].minor)
              /\ Appended[LiveRank(k)].state = getDiskStateStr(disks[k].state)
        /\ \A r \in (Cardinality(Live) + 1)..Len(Appended) :
              /\ IsPlaceholder(Appended[r])
              /\ \A q \in (Cardinality(Live) + 1)..(r - 1) :
                    stoi(Appended[q].slot).val < stoi(Appended[r].slot).val

\* a live disk, then a slot-ambiguous disk that got a slot, then a
\* placeholder
C14_Witness ==
    /\ Reconciled
    /\ Live \ Ambiguous # {}
    /\ \E k \in Ambiguous : IsNatString(Appended[LiveRank(k)].slot)
    /\ Len(Appended) > Cardinality(Live)
    /\ \E j \in FailedQueries : \E k \in Live : j < k

\* C15: out of the scan a live disk carries its reported slot when that is
\* >= 0, else the queried slot number when that is < N, and otherwise no
\* slot at all (it is slot-ambiguous) until the pass over the slots.
C15_ProvisionalSlot ==
    ScanPhase =>
        \A k \in Live :
           LET r == temp[LiveRank(k)]
           IN  IF disks[k].raid_disk >= 0
               THEN r.slot = to_string(disks[k].raid_disk)
               ELSE IF disks[k].number < raid_disks
                    THEN r.slot = to_string(disks[k].number)
                    ELSE ~IsNatString(r.slot)

\* all three cases in one scan
C15_Witness ==
    /\ pc = "resolve"
    /\ slot = 0
    /\ \E k \in Live : disks[k].raid_disk >= 0
                       /\ disks[k].raid_disk # disks[k].number
    /\ \E k \in Live : disks[k].raid_disk < 0 /\ disks[k].number < raid_disks
    /\ Ambiguous # {}

\* getDevName was called right after the getDiskInfo of disks[k]
DevNameCalledFor(k) ==
    \E c \in 1..(Len(calls) - 1) :
       /\ calls[c].fn = "getDiskInfo"
       /\ calls[c].a = disks[k].number
       /\ calls[c + 1].fn = "getDevName"

\* C18: a successfully queried disk gives a row and a getDevName call if
\* and only if its major number is positive, whatever its state and slot.
C18_RowIffMajorPositive ==
    /\ \A k \in 1..Len(disks) :
          disks[k].ok => (DevNameCalledFor(k) <=> disks[k].major > 0)
    /\ ScanPhase =>
          /\ Len(temp) = Cardinality(Live)
          /\ \A k \in Live :
                temp[LiveRank(k)].drive_name =
                   getDevName(disks[k].major, disks[k].minor)

\* a disk that looks active in slot 0 but has major 0, one with a negative
\* major, and a live one
C18_Witness ==
    /\ pc = "resolve"
    /\ slot = 0
    /\ \E k \in 1..Len(disks) :
          disks[k].ok /\ disks[k].major = 0 /\ disks[k].state = 6
    /\ \E k \in 1..Len(disks) : disks[k].ok /\ disks[k].major < 0
    /\ Cardinality(Live) = 1
    /\ Len(temp) = 1

\* the calls the scan makes for a list of getDiskInfo answers
RECURSIVE ScanCalls(_)
ScanCalls(ds) ==
    IF ds = <<>> THEN <<>>
    ELSE <<[fn |-> "getDiskInfo", a |-> Head(ds).number, b |-> 0]>>
         \o (IF Head(ds).ok /\ Head(ds).major > 0
             THEN <<[fn |-> "getDevName", a |-> Head(ds).major,
                     b |-> Head(ds).minor]>>
             ELSE <<>>)
         \o ScanCalls(Tail(ds))

CallSigs == [c \in 1..Len(calls) |->
               [fn |-> calls[c].fn, a |-> calls[c].a, b |-> calls[c].b]]

\* C19: once path resolution and getArrayInfo have succeeded the calls are
\* getPathByDevName, getArrayInfo, then getDiskInfo for the slot numbers 0,
\* 1, ... in ascending order, each followed at once by the getDevName of
\* that disk when it is live; MAX_SLOTS getDiskInfo calls in all, never
\* more.
C19_CallOrder ==
    ArrayInfoOk =>
        /\ CallSigs = <<[fn |-> "getPathByDevName", a |-> 0, b |-> 0],
                        [fn |-> "getArrayInfo", a |-> 0, b |-> 0]>>
                      \o ScanCalls(disks)
        /\ \A k \in 1..Len(disks) : disks[k].number = k - 1
        /\ Len(disks) <= MD_SB_DISKS
        /\ pc \in {"resolve", "done"} => Len(disks) = MD_SB_DISKS

\* a run with a live disk first and a failed query after it
C19_Witness ==
    /\ Reconciled
    /\ 1 \in Live
    /\ \E k \in FailedQueries : k > 1
    /\ Len(calls) > MD_SB_DISKS + 2

\* C27: slot coverage. After a run in which getArrayInfo succeeded every
\* slot of [0, N) is the slot of at least one appended row, whatever the
\* queries answered; and a row that carries a non-negative slot keeps that
\* slot for the rest of the run.
C27_SlotCoverage ==
    /\ [](Reconciled =>
            \A s \in 0..(raid_disks - 1) :
               \E k \in 1..Len(Appended) : stoi(Appended[k].slot).val = s)
    /\ [][\A k \in 1..Len(temp) :
             IsNatString(temp[k].slot) =>
                k <= Len(temp') /\ temp'[k].slot = temp[k].slot]_vars

\* a failed query, a slot-ambiguous disk, a disk in a slot beyond N and a
\* placeholder, with N >= 2
C27_Witness ==
    /\ Reconciled
    /\ raid_disks >= 2
    /\ Cardinality(Ambiguous) >= 1
    /\ Cardinality(FailedQueries) >= 1
    /\ \E k \in Live \ Ambiguous : Provisional(k) >= raid_disks
    /\ Len(Appended) > Cardinality(Live)

\* C28: the missing-slot pass only changes the slot of slot-ambiguous rows
\* and appends rows: md_device_name, drive_name and state of every live
\* disk's row stay as they were computed in the scan, no row is removed,
\* and the rows the caller's output had before the call keep their
\* contents and positions, the new rows coming after them.
C28_Frame ==
    /\ [][pc = "resolve" =>
            /\ Len(temp') >= Len(temp)
            /\ \A k \in 1..Len(temp) :
                  /\ temp'[k].md_device_name = temp[k].md_device_name
                  /\ temp'[k].drive_name = temp[k].drive_name
                  /\ temp'[k].state = temp[k].state
                  /\ temp'[k].slot # temp[k].slot =>
                        \E d \in Ambiguous : LiveRank(d) = k]_vars
    /\ [](Reconciled =>
            /\ \A d \in Live :
                  /\ Appended[LiveRank(d)].md_device_name = ArrayName
                  /\ Appended[LiveRank(d)].drive_name =
                        getDevName(disks[d].major, disks[d].minor)
                  /\ Appended[LiveRank(d)].state =
                        getDiskStateStr(disks[d].state)
            /\ Len(data) >= Len(before)
            /\ SubSeq(data, 1, Len(before)) = before)
    /\ [][Len(data') >= Len(data)
          /\ SubSeq(data', 1, Len(data)) = data]_vars

\* the caller's output held a row of another array, an ambiguous row took
\* a slot and a placeholder was added
C28_Witness ==
    /\ Reconciled
    /\ before = <<PriorRow>>
    /\ \E d \in Ambiguous : IsNatString(Appended[LiveRank(d)].slot)
    /\ \E r \in 1..Len(Appended) : IsPlaceholder(Appended[r])
    /\ Len(data) >= 4

Max0(x) == IF x > 0 THEN x ELSE 0

\* C29: the number of rows appended is L + max(0, M - A), with L the live
\* disks, A the slot-ambiguous ones and M the slots of [0, N) no live disk
\* carries out of the scan; so it is at least N, and more than N exactly
\* when two live disks carry the same slot, a live disk carries a slot
\* >= N, or A > M.
C29_RowCount ==
    Reconciled =>
        /\ Len(Appended) = Cardinality(Live)
                           + Max0(Cardinality(Missing) - Cardinality(Ambiguous))
        /\ Len(Appended) >= raid_disks
        /\ Len(Appended) > raid_disks <=>
              \/ \E j, k \in Live \ Ambiguous :
                    j # k /\ Provisional(j) = Provisional(k)
              \/ \E k \in Live \ Ambiguous : Provisional(k) >= raid_disks
              \/ Cardinality(Ambiguous) > Cardinality(Missing)

\* more ambiguous disks than missing slots, the case of the test
\* some_faulty_some_removed
C29_Witness ==
    /\ Reconciled
    /\ raid_disks >= 1
    /\ Cardinality(Missing) >= 1
    /\ Cardinality(Ambiguous) > Cardinality(Missing)
    /\ Len(Appended) = raid_disks + 1

----------------------------------------------------------------------------
(* Properties of MD::parseMDStat                                           *)

\* C7: on every list of lines, well-formed or not, parseMDStat returns
\* normally: no exception leaves it and no read brings the process down.
C7_NeverRaises == ppc \notin {"raised", "crashed"}

\* C8: every iteration of the main loop moves the line cursor forward by at
\* least one, so there are never more iterations than lines.
C8_CursorAdvances ==
    ppc \in {"loop", "done"} => iters <= n /\ iters <= Len(lines)

\* t is s without its leading and trailing spaces
IsTrimOf(t, s) ==
    \E a, b \in 0..Len(s) :
       /\ a + b <= Len(s)
       /\ t = SubSeq(s, a + 1, Len(s) - b)
       /\ \A k \in 1..a : s[k] = " "
       /\ \A k \in (Len(s) - b + 1)..Len(s) : s[k] = " "
       /\ t # <<>> => t[1] # " " /\ t[Len(t)] # " "

\* what follows the first occurrence of pat in line
After(line, pat) == SubSeq(line, Find(line, pat) + Len(pat) + 1, Len(line))

\* the markers and the fields of the array record they fill
ContinuationFields ==
    <<[marker |-> S_recovery, field |-> "recovery"],
      [marker |-> S_resync, field |-> "resync"],
      [marker |-> S_reshape, field |-> "reshape"],
      [marker |-> S_check, field |-> "checkArray"],
      [marker |-> S_bitmap, field |-> "bitmap"]>>

HasMarker(line) ==
    \E m \in 1..Len(ContinuationFields) :
       Find(line, ContinuationFields[m].marker) >= 0

\* C24: after the config line of an array each following line that holds a
\* marker is consumed: the trimmed text after the marker goes to the
\* matching field, nothing else changes and the cursor advances by one. The
\* first following line without a marker ends the run: the record is
\* appended and the cursor is left on that line, which is classified next.
C24_ContinuationRun ==
    [][(ppc = "more" /\ n + 1 < Len(lines)) =>
         IF HasMarker(lines[n + 2])
         THEN /\ n' = n + 1
              /\ ppc' = "more"
              /\ result' = result
              /\ \A m \in 1..Len(ContinuationFields) :
                    LET c == ContinuationFields[m]
                    IN  IF Find(lines[n + 2], c.marker) >= 0
                        THEN IsTrimOf(mdd'[c.field],
                                      After(lines[n + 2], c.marker))
                        ELSE mdd'[c.field] = mdd[c.field]
              /\ \A f \in DOMAIN mdd :
                    (\A m \in 1..Len(ContinuationFields) :
                        ContinuationFields[m].field # f) => mdd'[f] = mdd[f]
         ELSE /\ n' = n + 1
              /\ ppc' = "loop"
              /\ lines[n' + 1] = lines[n + 2]
              /\ result' = [result EXCEPT
                              !.devices = Append(result.devices, mdd)]]_vars

\* an array block with a continuation line has been closed and the line
\* that closed it is at the cursor
C24_Witness ==
    /\ ppc = "loop"
    /\ ~oob
    /\ n < Len(lines)
    /\ n >= 3
    /\ ~HasMarker(lines[n + 1])
    /\ HasMarker(lines[n])
    /\ Len(result.devices) = 1
    /\ \E m \in 1..Len(ContinuationFields) :
          result.devices[1][ContinuationFields[m].field] # <<>>

\* the whitespace-separated tokens of a string
Words(str) ==
    SelectSeq(Pieces(str, {" ", "\t"}, <<>>), LAMBDA x : x # <<>>)

\* the line at the cursor is classified as the start of an array
ArrayStart ==
    /\ AtLine
    /\ FirstTwo = <<"m", "d">>
    /\ Find(lines[n + 1], <<":">>) >= 0

LeftOfColon(line) == SubSeq(line, 1, Find(line, <<":">>))

RightOfColon(line) == SubSeq(line, Find(line, <<":">>) + 2, Len(line))

\* C21: a line classified as an array start opens a record whose name is
\* the trimmed text left of the first colon, whose status and raid level
\* are the first two tokens right of it and whose drive tokens are the
\* remaining tokens in order; the block then appends exactly that one
\* record, and records are appended in no other way.
C21_ArrayStartRecord ==
    /\ [][ArrayStart =>
            LET w == Words(RightOfColon(lines[n + 1]))
            IN  /\ ppc' = "config"
                /\ IsTrimOf(mdd'.name, LeftOfColon(lines[n + 1]))
                /\ mdd'.status = w[1]
                /\ mdd'.raidLevel = w[2]
                /\ [k \in 1..Len(mdd'.drives) |-> mdd'.drives[k].name]
                      = SubSeq(w, 3, Len(w))]_vars
    /\ [][(result'.devices # result.devices) =>
            /\ ppc = "more"
            /\ result'.devices = Append(result.devices, mdd)]_vars
    /\ [][(ppc \in {"config", "more"}) =>
            /\ ppc' \in {"config", "more", "loop"}
            /\ ppc' # "loop" =>
                  /\ mdd'.name = mdd.name
                  /\ mdd'.status = mdd.status
                  /\ mdd'.raidLevel = mdd.raidLevel
                  /\ mdd'.drives = mdd.drives
            /\ ppc' = "loop" =>
                  Len(result'.devices) = Len(result.devices) + 1]_vars

\* C23: the line after an array-start line is consumed as the config line
\* of that array and is never classified; with four tokens or more,
\* usableSize is the first two tokens joined by a space, healthyDrives and
\* driveStatuses are the last two tokens and other is every token between
\* them, each with a space in front.
C23_ConfigLine ==
    /\ [][(ArrayStart /\ n + 1 < Len(lines)) => ppc' = "config"]_vars
    /\ [][(ppc = "config" /\ n + 1 < Len(lines)) =>
            LET w == Words(lines[n + 2])
            IN  /\ n' = n + 1
                /\ ppc' = "more"
                /\ result' = result
                /\ Len(w) >= 4 =>
                      /\ mdd'.usableSize = w[1] \o <<" ">> \o w[2]
                      /\ mdd'.healthyDrives = w[Len(w) - 1]
                      /\ mdd'.driveStatuses = w[Len(w)]
                      /\ mdd'.other =
                            ConcatOther(SubSeq(w, 3, Len(w) - 2))]_vars

\* C25: a top-level line that starts with "un" stores what follows the
\* prefix "unused devices:" as the unused field, adds no array record and
\* advances the cursor by one; a top-level line that starts with neither
\* "md" nor "un" changes nothing in the result and advances the cursor by
\* one.
C25_UnusedAndOther ==
    /\ [][(AtLine /\ FirstTwo = <<"u", "n">>) =>
            /\ n' = n + 1
            /\ ppc' = "loop"
            /\ result' = [result EXCEPT
                            !.unused = SubSeq(lines[n + 1],
                                              Len(S_unused_devices) + 1,
                                              Len(lines[n + 1]))]]_vars
    /\ [][(AtLine /\ FirstTwo # <<"u", "n">> /\ FirstTwo # <<"m", "d">>) =>
            /\ n' = n + 1
            /\ ppc' = "loop"
            /\ result' = result]_vars

\* C20: parseMDStat reads lines only at indices below the line count.
C20_ReadsInRange == ~oob

----------------------------------------------------------------------------
(* Properties of getDiskStateStr (checked under SpecState)                 *)

\* the flags in the order the names are listed, each with its name
FlagNames == <<[bit |-> MD_DISK_FAULTY, name |-> <<"f","a","u","l","t","y">>],
               [bit |-> MD_DISK_ACTIVE, name |-> <<"a","c","t","i","v","e">>],
               [bit |-> MD_DISK_SYNC, name |-> <<"s","y","n","c">>],
               [bit |-> MD_DISK_REMOVED,
                name |-> <<"r","e","m","o","v","e","d">>],
               [bit |-> MD_DISK_WRITEMOSTLY,
                name |-> <<"w","r","i","t","e","m","o","s","t","l","y">>],
               [bit |-> MD_DISK_FAILFAST,
                name |-> <<"f","a","i","l","f","a","s","t">>],
               [bit |-> MD_DISK_JOURNAL,
                name |-> <<"j","o","u","r","n","a","l">>],
               [bit |-> MD_DISK_CANDIDATE, name |-> <<"s","p","a","r","e">>],
               [bit |-> MD_DISK_CLUSTER_ADD,
                name |-> <<"c","l","u","s","t","e","r","a","d","d">>]>>

\* the names of the flags set in a state, in that order, one space between
RECURSIVE NamesFrom(_, _)
NamesFrom(k, st) ==
    IF k > Len(FlagNames) THEN <<>>
    ELSE IF BitSet(FlagNames[k].bit, st)
         THEN LET rest == NamesFrom(k + 1, st)
              IN  IF rest = <<>> THEN FlagNames[k].name
                  ELSE FlagNames[k].name \o <<" ">> \o rest
         ELSE NamesFrom(k + 1, st)

\* C16: getDiskStateStr gives "recovering" for a state of exactly 0, and
\* for any other state the names of its set flags in the order faulty,
\* active, sync, removed, writemostly, then the platform-conditional flags,
\* separated by single spaces with no leading or trailing space.
C16_StateString ==
    spc = "done" =>
        stateStr = (IF diskState = 0 THEN S_recovering
                    ELSE NamesFrom(1, diskState))

Contains(str, sub) == Find(str, sub) >= 0

\* C17: the state string contains "clusteradd" if and only if the
\* CLUSTER_ADD bit is set in the state, and "spare" if and only if the
\* CANDIDATE bit is set.
C17_ClusterAddIffBit ==
    spc = "done" =>
        /\ Contains(stateStr, FlagNames[9].name)
              <=> BitSet(MD_DISK_CLUSTER_ADD, diskState)
        /\ Contains(stateStr, FlagNames[8].name)
              <=> BitSet(MD_DISK_CANDIDATE, diskState)

----------------------------------------------------------------------------
(* Properties of MD::getDiskInfo and MD::getArrayInfo (checked under       *)
(* SpecFd)                                                                 *)

\* C12: when getDiskInfo or getArrayInfo has returned, true or false, the
\* handle it opened is closed again: the open handles are those that were
\* open when the call started, and so is their number.
C12_HandleReleased ==
    fpc = "returned" =>
        /\ fd \notin openFds
        /\ openFds = fdsBefore
        /\ Cardinality(openFds) = Cardinality(fdsBefore)

\* a call that opened a handle and failed in ioctl has returned false,
\* after a call that returned true
C12_Witness ==
    /\ fpc = "returned"
    /\ fd >= 0
    /\ status = -1
    /\ Len(returns) >= 2
    /\ returns[Len(returns)] = FALSE
    /\ returns[Len(returns) - 1] = TRUE

----------------------------------------------------------------------------
(* Properties of genMDDrives (checked under SpecPass)                      *)

\* path resolution or getArrayInfo failed in a finished call
CallFailed(e) ==
    \E c \in 1..Len(e.calls) :
       e.calls[c].fn \in {"getPathByDevName", "getArrayInfo"} /\ ~e.calls[c].ok

\* the rows one array gives from the answers a call saw
RECURSIVE ScanRows(_, _, _, _)
ScanRows(t, name, N, ds) ==
    IF ds = <<>> THEN t
    ELSE ScanRows(ScanDisk(t, name, N, Head(ds)), name, N, Tail(ds))

RECURSIVE ResolveRows(_, _, _, _)
ResolveRows(t, name, N, s) ==
    IF s >= N THEN t
    ELSE ResolveRows(ResolveSlot(t, name, s), name, N, s + 1)

RowsOf(e) ==
    ResolveRows(ScanRows(<<>>, e.name, e.raid_disks, e.disks),
                e.name, e.raid_disks, 0)

\* the rows of a pass over the arrays of a log, in order
RECURSIVE PassRows(_)
PassRows(log) ==
    IF log = <<>> THEN <<>> ELSE RowsOf(Head(log)) \o PassRows(Tail(log))

\* the same pass with the failing arrays absent
WithoutFailed(log) == SelectSeq(log, LAMBDA e : ~CallFailed(e))

\* C11: in a genMDDrives pass a path-resolution or getArrayInfo failure of
\* one array leaves out that array's rows only: every array is still
\* visited, and the rows returned are those of the pass over the other
\* arrays alone, in the same order.
C11_FailureIsolated ==
    pc = "returned" =>
        /\ Len(passLog) = Len(passDevices)
        /\ \A k \in 1..Len(passLog) : passLog[k].name = passDevices[k]
        /\ data = PassRows(WithoutFailed(passLog))
        /\ \A k \in 1..Len(data) :
              \E e \in 1..Len(passLog) :
                 ~CallFailed(passLog[e])
                 /\ data[k].md_device_name = passLog[e].name

\* three arrays, the middle one failing in getArrayInfo, the others giving
\* rows
C11_Witness ==
    /\ pc = "returned"
    /\ Len(passLog) = 3
    /\ CallFailed(passLog[2])
    /\ Len(passLog[2].calls) = 2
    /\ ~CallFailed(passLog[1])
    /\ ~CallFailed(passLog[3])
    /\ \E a, b \in 1..Len(data) :
          /\ a < b
          /\ data[a].md_device_name = passLog[1].name
          /\ data[b].md_device_name = passLog[3].name

----------------------------------------------------------------------------
(* Properties of parseMDDrive (checked under SpecDrive)                    *)

HasOpen(t) == \E k \in 1..Len(t) : t[k] = "["

HasClose(t) == \E k \in 1..Len(t) : t[k] = "]"

\* the number a string of decimal digits spells
RECURSIVE Decimal(_)
Decimal(ds) == IF ds = <<>> THEN 0
               ELSE 10 * Decimal(SubSeq(ds, 1, Len(ds) - 1))
                    + (CHOOSE v \in 0..9 : to_string(v) = <<ds[Len(ds)]>>)

\* t is name[digits]... with the brackets at a and b
IsNamePosition(t, a, b) ==
    /\ 1 <= a /\ a + 1 < b /\ b <= Len(t)
    /\ t[a] = "[" /\ t[b] = "]"
    /\ \A k \in 1..(a - 1) : t[k] \notin {"[", "]"}
    /\ \A k \in (a + 1)..(b - 1) : \E v \in 0..9 : to_string(v) = <<t[k]>>

----------------------------------------------------------------------------
(* Properties of genMDDevices (checked under SpecDevices)                  *)

\* the operations with a progress string: the field of the array record
\* and the name the three columns carry
Operations ==
    <<[field |-> "recovery",
       op |-> <<"r", "e", "c", "o", "v", "e", "r", "y">>],
      [field |-> "resync", op |-> <<"r", "e", "s", "y", "n", "c">>],
      [field |-> "reshape", op |-> <<"r", "e", "s", "h", "a", "p", "e">>],
      [field |-> "checkArray",
       op |-> <<"c", "h", "e", "c", "k", "_", "a", "r", "r", "a", "y">>]>>

Triple(op) == {op \o Column.suffix_progress, op \o Column.suffix_finish, op \o Column.suffix_speed}

SpacePieces(str) ==
    SelectSeq(Pieces(str, {" "}, <<>>), LAMBDA x : x # <<>>)

\* C26: genMDDevices returns one row per parsed array, in array order; for
\* each of recovery, resync, reshape and check-array whose progress string
\* is non-empty and has exactly four pieces the row has the columns
\* <op>_progress, <op>_finish and <op>_speed of that operation, and it has
\* none of them when the progress string is empty.
C26_ProgressColumns ==
    mpc = "done" =>
        /\ Len(results) = Len(mds.devices)
        /\ \A k \in 1..Len(results) :
              /\ results[k][Column.device_name] = mds.devices[k].name
              /\ \A o \in 1..Len(Operations) :
                    LET str == mds.devices[k][Operations[o].field]
                        cols == Triple(Operations[o].op)
                    IN  /\ (str # <<>> /\ Len(SpacePieces(str)) = 4) =>
                              cols \subseteq DOMAIN results[k]
                        /\ str = <<>> =>
                              cols \cap DOMAIN results[k] = {}

============================================================================
